---- MODULE Spec2Model ----
(***************************************************************************)
(* Half-edge topology of a convex polyhedron (HalfEdgeStructure) and the   *)
(* build / finalize / query life cycle around it.                          *)
(*                                                                         *)
(* Indices are 0-based as in the C++ code; TLA+ sequences are 1-based, so  *)
(* an array read a[i] is written a[i + 1].                                 *)
(***************************************************************************)
EXTENDS Integers, Sequences, FiniteSets, TLC

\* ------------------------------------------------------------------ bounds
\* Largest number of vertices / faces the arrays are allowed to hold.
MaxVertices == 4
MaxFaces == 3

\* Inputs of the mesh-building runs (Spec).  Vertex lists passed to addFace:
\* the two windings of a triangle, a quadrilateral and the triangle that
\* closes it together with <<0, 2, 1>>, and a degenerate two-vertex face.
FaceInputs ==
    { <<0, 1, 2>>, <<0, 2, 1>>,
      <<0, 1, 2, 3>>, <<0, 3, 2>>,
      <<0, 1>> }

\* Value passed as vertexPointIndex to addVertex in the mesh-building runs.
PointIndices == {5}

\* Inputs of the vertex-array runs (SpecVertices): several coordinate slots,
\* few faces.
VertexRunPointIndices == {0, 5}

VertexRunFaceInputs == { <<0, 1, 2>>, <<0, 2, 1>> }

\* ------------------------------------------------------------------- state
VARIABLES
    mVertices,      \* Array<Vertex>
    mFaces,         \* Array<Face>
    mEdges,         \* Array<Edge>
    lifecycle,      \* "Building", "Finalized" or "Failed": the outcome of init()
                    \* (the class keeps no such member; no method reads it)
    atFinalize,     \* sizes of the arrays when init() ran (history)
    addVertexArgs,  \* the vertexPointIndex of every addVertex call, in order
                    \* (history)
    call,           \* the last call: operation, argument, outcome, result
    aborted,        \* an assertion has failed: the process is gone
    mConvexMesh,    \* ConvexMeshShape::mConvexMesh: vertex coordinates, face normals
    mScale,         \* ConvexMeshShape::mScale
    readers         \* per reader thread: the call it is in, its locals, its result

\* The members of the shape.
shapeVars == <<mConvexMesh, mScale>>

vars == <<mVertices, mFaces, mEdges, lifecycle, atFinalize, addVertexArgs,
          call, aborted, mConvexMesh, mScale, readers>>

\* A member that a constructor leaves uninitialized carries isSet = FALSE;
\* its value is then whatever the memory held.
Vertex(vertexCoordsIndex) ==
    [vertexPointIndex |-> vertexCoordsIndex, edgeIndex |-> 0, edgeIndexSet |-> FALSE]

Face(vertices) ==
    [edgeIndex |-> 0, edgeIndexSet |-> FALSE, faceVertices |-> vertices]

NoCall == [op |-> "none", arg |-> 0, outcome |-> "none", ret |-> 0]

\* A topology under construction has no shape over it yet.
NoMesh == [name |-> "none", vertices |-> <<>>, faceNormals |-> <<>>]

\* A RaycastInfo object that no raycast has written.
UnwrittenRaycastInfo == [written |-> FALSE]

Init ==
    /\ mVertices = <<>>
    /\ mFaces = <<>>
    /\ mEdges = <<>>
    /\ lifecycle = "Building"
    /\ atFinalize = [nbVertices |-> 0, nbFaces |-> 0]
    /\ addVertexArgs = <<>>
    /\ call = NoCall
    /\ aborted = FALSE
    /\ mConvexMesh = NoMesh
    /\ mScale = <<1, 1, 1>>
    /\ readers = <<>>

\* --------------------------------------------------------------- accessors
getNbFaces == Len(mFaces)

getNbHalfEdges == Len(mEdges)

getNbVertices == Len(mVertices)

\* assert(index < mFaces.size())
getFaceAssert(index) == index < Len(mFaces)

\* Mutant: the record after the one asked for (wrapping around).
getFace_offByOne(index) == mFaces[((index + 1) % Len(mFaces)) + 1]

getFace(index) == mFaces[index + 1]

\* assert(index < mEdges.size())
getHalfEdgeAssert(index) == index < Len(mEdges)

\* Mutant: the record after the one asked for (wrapping around).
getHalfEdge_offByOne(index) == mEdges[((index + 1) % Len(mEdges)) + 1]

getHalfEdge(index) == mEdges[index + 1]

\* assert(index < mVertices.size())
getVertexAssert(index) == index < Len(mVertices)

\* Mutant: the record after the one asked for (wrapping around).
getVertex_offByOne(index) == mVertices[((index + 1) % Len(mVertices)) + 1]

getVertex(index) == mVertices[index + 1]

\* ----------------------------------------------------------- init (finalize)
\* Positions <<f, v>> of the directed edges of a face list: face f (1-based
\* position in the array), v-th vertex of its boundary (1-based).
EdgeKeys(faces) ==
    UNION { { <<f, v>> : v \in 1..Len(faces[f].faceVertices) } : f \in 1..Len(faces) }

\* Origin and destination vertex of the edge at <<f, v>>: consecutive vertices
\* of the face, wrapping around.
EdgeOrigin(faces, k) == faces[k[1]].faceVertices[k[2]]

NextInFace(faces, k) == <<k[1], (k[2] % Len(faces[k[1]].faceVertices)) + 1>>

EdgeDest(faces, k) == EdgeOrigin(faces, NextInFace(faces, k))

\* Number of half-edges of the faces before face f.
RECURSIVE EdgeOffset(_, _)
EdgeOffset(faces, f) ==
    IF f <= 1 THEN 0
    ELSE EdgeOffset(faces, f - 1) + Len(faces[f - 1].faceVertices)

\* Index in mEdges of the half-edge at <<f, v>>: face after face, in boundary
\* order.
EdgeIndexOf(faces, k) == EdgeOffset(faces, k[1]) + k[2] - 1

\* The edges of another face that carry the reversed vertex pair.
TwinCandidates(faces, k) ==
    { c \in EdgeKeys(faces) :
        /\ c[1] # k[1]
        /\ EdgeOrigin(faces, c) = EdgeDest(faces, k)
        /\ EdgeDest(faces, c) = EdgeOrigin(faces, k) }

\* Reasons for which finalize reports a ConstructionError.
HasSmallFace(faces) ==
    \E f \in 1..Len(faces) : Len(faces[f].faceVertices) < 3

\* Mutant: the first index past the vertex array is accepted.
HasOutOfRangeVertex_offByOne(faces, nbVertices) ==
    \E f \in 1..Len(faces) : \E v \in 1..Len(faces[f].faceVertices) :
        faces[f].faceVertices[v] > nbVertices

HasOutOfRangeVertex(faces, nbVertices) ==
    \E f \in 1..Len(faces) : \E v \in 1..Len(faces[f].faceVertices) :
        faces[f].faceVertices[v] >= nbVertices

\* Mutant: an edge with several candidate twins is accepted.
IsManifold_anyTwin(faces) ==
    \A k \in EdgeKeys(faces) : Cardinality(TwinCandidates(faces, k)) >= 1

IsManifold(faces) ==
    \A k \in EdgeKeys(faces) : Cardinality(TwinCandidates(faces, k)) = 1

ConstructionErrors(faces, nbVertices) ==
    (IF IsManifold(faces) THEN {} ELSE {"ManifoldError"}) \cup
    (IF HasSmallFace(faces) THEN {"FaceTooSmall"} ELSE {}) \cup
    (IF HasOutOfRangeVertex(faces, nbVertices) THEN {"VertexOutOfRange"} ELSE {})

\* Mutant: the twin is taken to be the twin of the next edge of the face.
MakeEdge_twinOfNext(faces, k) ==
    [vertexIndex   |-> EdgeOrigin(faces, k),
     twinEdgeIndex |-> EdgeIndexOf(faces,
                          CHOOSE c \in TwinCandidates(faces, NextInFace(faces, k)) : TRUE),
     faceIndex     |-> k[1] - 1,
     nextEdgeIndex |-> EdgeIndexOf(faces, NextInFace(faces, k))]

\* The half-edge synthesized for position k.
MakeEdge(faces, k) ==
    [vertexIndex   |-> EdgeOrigin(faces, k),
     twinEdgeIndex |-> EdgeIndexOf(faces, CHOOSE c \in TwinCandidates(faces, k) : TRUE),
     faceIndex     |-> k[1] - 1,
     nextEdgeIndex |-> EdgeIndexOf(faces, NextInFace(faces, k))]

BuildEdges(faces) ==
    [i \in 1..Cardinality(EdgeKeys(faces)) |->
        MakeEdge(faces, CHOOSE k \in EdgeKeys(faces) : EdgeIndexOf(faces, k) = i - 1)]

\* Each face gets the half-edge of its first vertex as its boundary edge.
LinkFaces(faces) ==
    [f \in 1..Len(faces) |->
        [faces[f] EXCEPT !.edgeIndex = EdgeOffset(faces, f), !.edgeIndexSet = TRUE]]

\* Each vertex gets one half-edge that originates at it, when there is one.
LinkVertices(vertices, edges) ==
    [v \in 1..Len(vertices) |->
        LET out == { i \in 1..Len(edges) : edges[i].vertexIndex = v - 1 }
        IN  IF out = {} THEN vertices[v]
            ELSE [vertices[v] EXCEPT
                    !.edgeIndex = (CHOOSE i \in out : \A j \in out : i <= j) - 1,
                    !.edgeIndexSet = TRUE]]

\* HalfEdgeStructure::init(): Building -> Finalized, or a reported
\* ConstructionError that leaves the topology unusable.
init ==
    /\ ~aborted
    /\ lifecycle = "Building"
    /\ LET errors == ConstructionErrors(mFaces, Len(mVertices))
       IN  IF errors = {}
           THEN /\ mEdges' = BuildEdges(mFaces)
                /\ mFaces' = LinkFaces(mFaces)
                /\ mVertices' = LinkVertices(mVertices, mEdges')
                /\ lifecycle' = "Finalized"
                /\ call' = [op |-> "init", arg |-> 0, outcome |-> "returned", ret |-> {}]
           ELSE /\ UNCHANGED <<mEdges, mFaces, mVertices>>
                /\ lifecycle' = "Failed"
                /\ call' = [op |-> "init", arg |-> 0,
                            outcome |-> "ConstructionError", ret |-> errors]
    /\ atFinalize' = [nbVertices |-> Len(mVertices), nbFaces |-> Len(mFaces)]
    /\ UNCHANGED <<addVertexArgs, aborted>>
    /\ UNCHANGED shapeVars
    /\ UNCHANGED readers

\* ------------------------------------------------------------------- build
\* Mutant: the size of the array is returned instead of the last index.
addVertex_returnsSize(vertexPointIndex) ==
    /\ ~aborted
    /\ Len(mVertices) < MaxVertices
    /\ mVertices' = Append(mVertices, Vertex(vertexPointIndex))
    /\ call' = [op |-> "addVertex", arg |-> vertexPointIndex,
                outcome |-> "returned", ret |-> Len(mVertices')]
    /\ addVertexArgs' = Append(addVertexArgs, vertexPointIndex)
    /\ UNCHANGED <<mFaces, mEdges, lifecycle, atFinalize, aborted>>
    /\ UNCHANGED shapeVars
    /\ UNCHANGED readers

\* Vertex vertex(vertexPointIndex); mVertices.add(vertex);
\* return mVertices.size() - 1;
addVertex(vertexPointIndex) ==
    /\ ~aborted
    /\ Len(mVertices) < MaxVertices
    /\ mVertices' = Append(mVertices, Vertex(vertexPointIndex))
    /\ call' = [op |-> "addVertex", arg |-> vertexPointIndex,
                outcome |-> "returned", ret |-> Len(mVertices') - 1]
    /\ addVertexArgs' = Append(addVertexArgs, vertexPointIndex)
    /\ UNCHANGED <<mFaces, mEdges, lifecycle, atFinalize, aborted>>
    /\ UNCHANGED shapeVars
    /\ UNCHANGED readers

\* Face face(faceVertices); mFaces.add(face);
\* addFace that also makes one half-edge per vertex of the face, as finalize
\* would.
addFace_createsHalfEdges(faceVertices) ==
    /\ ~aborted
    /\ Len(mFaces) < MaxFaces
    /\ mFaces' = Append(mFaces, Face(faceVertices))
    /\ mEdges' = mEdges \o [i \in 1..Len(faceVertices) |->
                               [vertexIndex |-> faceVertices[i], twinEdgeIndex |-> 0,
                                faceIndex |-> Len(mFaces), nextEdgeIndex |-> 0]]
    /\ call' = [op |-> "addFace", arg |-> faceVertices, outcome |-> "returned", ret |-> 0]
    /\ UNCHANGED <<mVertices, lifecycle, atFinalize, addVertexArgs, aborted>>
    /\ UNCHANGED shapeVars
    /\ UNCHANGED readers

addFace(faceVertices) ==
    /\ ~aborted
    /\ Len(mFaces) < MaxFaces
    /\ mFaces' = Append(mFaces, Face(faceVertices))
    /\ call' = [op |-> "addFace", arg |-> faceVertices, outcome |-> "returned", ret |-> 0]
    /\ UNCHANGED <<mVertices, mEdges, lifecycle, atFinalize, addVertexArgs, aborted>>
    /\ UNCHANGED shapeVars
    /\ UNCHANGED readers

\* ----------------------------------------------------------- accessor calls
\* A call of an accessor that takes no index: it returns the size.
CallGetNbFaces ==
    /\ ~aborted
    /\ call' = [op |-> "getNbFaces", arg |-> 0, outcome |-> "returned", ret |-> getNbFaces]
    /\ UNCHANGED <<mVertices, mFaces, mEdges, lifecycle, atFinalize, addVertexArgs, aborted>>
    /\ UNCHANGED shapeVars
    /\ UNCHANGED readers

CallGetNbHalfEdges ==
    /\ ~aborted
    /\ call' = [op |-> "getNbHalfEdges", arg |-> 0, outcome |-> "returned",
                ret |-> getNbHalfEdges]
    /\ UNCHANGED <<mVertices, mFaces, mEdges, lifecycle, atFinalize, addVertexArgs, aborted>>
    /\ UNCHANGED shapeVars
    /\ UNCHANGED readers

CallGetNbVertices ==
    /\ ~aborted
    /\ call' = [op |-> "getNbVertices", arg |-> 0, outcome |-> "returned",
                ret |-> getNbVertices]
    /\ UNCHANGED <<mVertices, mFaces, mEdges, lifecycle, atFinalize, addVertexArgs, aborted>>
    /\ UNCHANGED shapeVars
    /\ UNCHANGED readers

\* A call of an indexed accessor: the assertion aborts the process, otherwise
\* the record at the index is returned.
CallGetFace(index) ==
    /\ ~aborted
    /\ IF getFaceAssert(index)
       THEN /\ call' = [op |-> "getFace", arg |-> index, outcome |-> "returned",
                        ret |-> getFace(index)]
            /\ aborted' = FALSE
       ELSE /\ call' = [op |-> "getFace", arg |-> index, outcome |-> "aborted", ret |-> 0]
            /\ aborted' = TRUE
    /\ UNCHANGED <<mVertices, mFaces, mEdges, lifecycle, atFinalize, addVertexArgs>>
    /\ UNCHANGED shapeVars
    /\ UNCHANGED readers

CallGetHalfEdge(index) ==
    /\ ~aborted
    /\ IF getHalfEdgeAssert(index)
       THEN /\ call' = [op |-> "getHalfEdge", arg |-> index, outcome |-> "returned",
                        ret |-> getHalfEdge(index)]
            /\ aborted' = FALSE
       ELSE /\ call' = [op |-> "getHalfEdge", arg |-> index, outcome |-> "aborted", ret |-> 0]
            /\ aborted' = TRUE
    /\ UNCHANGED <<mVertices, mFaces, mEdges, lifecycle, atFinalize, addVertexArgs>>
    /\ UNCHANGED shapeVars
    /\ UNCHANGED readers

CallGetVertex(index) ==
    /\ ~aborted
    /\ IF getVertexAssert(index)
       THEN /\ call' = [op |-> "getVertex", arg |-> index, outcome |-> "returned",
                        ret |-> getVertex(index)]
            /\ aborted' = FALSE
       ELSE /\ call' = [op |-> "getVertex", arg |-> index, outcome |-> "aborted", ret |-> 0]
            /\ aborted' = TRUE
    /\ UNCHANGED <<mVertices, mFaces, mEdges, lifecycle, atFinalize, addVertexArgs>>
    /\ UNCHANGED shapeVars
    /\ UNCHANGED readers

\* ----------------------------------------------------------- specification
Next ==
    \/ \E p \in PointIndices : addVertex(p)
    \/ \E fv \in FaceInputs : addFace(fv)
    \/ init
    \/ CallGetNbFaces
    \/ CallGetNbHalfEdges
    \/ CallGetNbVertices
    \/ \E i \in 0..Len(mFaces) : CallGetFace(i)
    \/ \E i \in 0..Len(mEdges) : CallGetHalfEdge(i)
    \/ \E i \in 0..Len(mVertices) : CallGetVertex(i)

Spec == Init /\ [][Next]_vars

\* The same operations, driven with the inputs of the vertex-array runs.
NextVertices ==
    \/ \E p \in VertexRunPointIndices : addVertex(p)
    \/ \E fv \in VertexRunFaceInputs : addFace(fv)
    \/ init
    \/ CallGetNbFaces
    \/ CallGetNbHalfEdges
    \/ CallGetNbVertices
    \/ \E i \in 0..Len(mFaces) : CallGetFace(i)
    \/ \E i \in 0..Len(mEdges) : CallGetHalfEdge(i)
    \/ \E i \in 0..Len(mVertices) : CallGetVertex(i)

SpecVertices == Init /\ [][NextVertices]_vars

\* =================================================== ConvexMeshShape (queries)
\* ------------------------------------------------------------ vector algebra
\* Vector3 with integer components; decimal values that a division produces
\* are exact fractions <<numerator, denominator>> in lowest terms, with a
\* positive denominator.
Dot(a, b) == a[1] * b[1] + a[2] * b[2] + a[3] * b[3]

VecSub(a, b) == <<a[1] - b[1], a[2] - b[2], a[3] - b[3]>>

\* Vector3 * Vector3: component-wise product.
VecMul(a, b) == <<a[1] * b[1], a[2] * b[2], a[3] * b[3]>>

LengthSquare(a) == Dot(a, a)

Abs(x) == IF x < 0 THEN -x ELSE x

RECURSIVE Gcd(_, _)
Gcd(a, b) == IF b = 0 THEN a ELSE Gcd(b, a % b)

\* n / d for d # 0.
Frac(n, d) ==
    LET g == Gcd(Abs(n), Abs(d))
        sgn == IF d < 0 THEN -1 ELSE 1
    IN  <<(sgn * n) \div g, (sgn * d) \div g>>

FracOfInt(n) == <<n, 1>>

FracLess(a, b) == a[1] * b[2] < b[1] * a[2]

\* point + t * direction, component by component.
PointOnRay(point, t, direction) ==
    [i \in 1..3 |-> Frac(point[i] * t[2] + t[1] * direction[i], t[2])]

SetMin(S) == CHOOSE x \in S : \A y \in S : x <= y

SetMax(S) == CHOOSE x \in S : \A y \in S : x >= y

\* ------------------------------------------------------------------- meshes
\* The faces of a box, counter-clockwise as seen from outside, over the
\* vertices 0..7 (bit 0: x, bit 1 xor bit 0: y, bit 2: z as listed below), and
\* their outward unit normals.
BoxFaces ==
    << <<0, 3, 2, 1>>, <<4, 5, 6, 7>>, <<0, 1, 5, 4>>,
       <<3, 7, 6, 2>>, <<0, 4, 7, 3>>, <<1, 2, 6, 5>> >>

BoxNormals ==
    << <<0, 0, -1>>, <<0, 0, 1>>, <<0, -1, 0>>,
       <<0, 1, 0>>, <<-1, 0, 0>>, <<1, 0, 0>> >>

BoxVertices(lo, hi) ==
    << <<lo[1], lo[2], lo[3]>>, <<hi[1], lo[2], lo[3]>>,
       <<hi[1], hi[2], lo[3]>>, <<lo[1], hi[2], lo[3]>>,
       <<lo[1], lo[2], hi[3]>>, <<hi[1], lo[2], hi[3]>>,
       <<hi[1], hi[2], hi[3]>>, <<lo[1], hi[2], hi[3]>> >>

BoxMesh(name, lo, hi) ==
    [name |-> name, vertices |-> BoxVertices(lo, hi), faceNormals |-> BoxNormals]

\* The cube with vertices at all combinations of +-1.
UnitCube == BoxMesh("unitCube", <<-1, -1, -1>>, <<1, 1, 1>>)

\* The same cube moved away from the origin.
OffsetCube == BoxMesh("offsetCube", <<1, 1, 1>>, <<3, 3, 3>>)

Meshes == {UnitCube, OffsetCube}

Scales == { <<1, 1, 1>>, <<2, 1, 1>> }

\* Directions of support-point queries, the zero vector included.
Directions == { <<x, y, z>> : x \in {-1, 0, 1}, y \in {-1, 0, 1}, z \in {-1, 0, 1} }

\* struct Ray.
Ray(point1, point2, maxFraction) ==
    [point1 |-> point1, point2 |-> point2, maxFraction |-> maxFraction]

\* End points of rays: outside, inside and on the boundary of the meshes.
RayPoints ==
    { <<-5, 0, 0>>, <<5, 0, 0>>, <<0, 0, 0>>, <<1, 0, 0>>, <<-5, 2, 0>>,
      <<5, 2, 0>>, <<-5, -5, 0>>, <<5, 5, 0>>, <<2, 2, 2>>, <<-5, 2, 2>> }

\* Points of containment queries: the above and points on the boundaries.
TestPoints == RayPoints \cup { <<2, 0, 0>>, <<1, 1, 1>>, <<3, 3, 3>>, <<1, 2, 4>> }

MaxFractions == { <<1, 1>>, <<1, 4>> }

\* RaycastInfo objects a caller hands to raycast: a fresh one, a used one.
\* Rays whose maxFraction is negative, zero or above 1.
OutOfRangeFractionRays ==
    { Ray(pp[1], pp[2], m) :
        pp \in { << <<-5, 0, 0>>, <<5, 0, 0>> >>, << <<5, 0, 0>>, <<-5, 0, 0>> >>,
                 << <<-5, 0, 0>>, <<0, 0, 0>> >>, << <<0, 0, 0>>, <<5, 0, 0>> >>,
                 << <<-5, -5, 0>>, <<5, 5, 0>> >>, << <<0, 0, 0>>, <<0, 0, 0>> >>,
                 << <<-5, 2, 2>>, <<-2, 2, 2>> >> },
        m \in { <<-1, 4>>, <<0, 1>>, <<2, 1>> } }

RaycastInfoInputs ==
    { UnwrittenRaycastInfo,
      [written |-> TRUE, hitFraction |-> <<1, 1>>,
       worldPoint |-> << <<9, 1>>, <<9, 1>>, <<9, 1>> >>, worldNormal |-> <<0, 0, 1>>] }

\* --------------------------------------------------------------- ConvexMesh
ConvexMesh_getNbVertices == Len(mConvexMesh.vertices)

ConvexMesh_getNbFaces == getNbFaces

ConvexMesh_getVertex(index) == mConvexMesh.vertices[index + 1]

ConvexMesh_getFaceNormal(faceIndex) == mConvexMesh.faceNormals[faceIndex + 1]

\* Component-wise minimum and maximum of the vertex coordinates.
ConvexMesh_getBounds ==
    [min |-> [i \in 1..3 |->
                SetMin({ mConvexMesh.vertices[v][i] : v \in 1..Len(mConvexMesh.vertices) })],
     max |-> [i \in 1..3 |->
                SetMax({ mConvexMesh.vertices[v][i] : v \in 1..Len(mConvexMesh.vertices) })]]

\* AABB::applyScale
applyScale(aabb, scale) ==
    [min |-> VecMul(aabb.min, scale), max |-> VecMul(aabb.max, scale)]

computePointToPlaneDistance(point, planeNormal, planePoint) ==
    Dot(planeNormal, VecSub(point, planePoint))

\* Lower than every dot product of the model.
DECIMAL_SMALLEST == -1000000

\* --------------------------------------- getLocalSupportPointWithoutMargin
\* The loop over the vertices from vertex i on; s holds maxDotProduct and
\* indexMaxDotProduct.
RECURSIVE SupportScan(_, _, _)
SupportScan(direction, i, s) ==
    IF i >= ConvexMesh_getNbVertices THEN s
    ELSE LET dotProduct == Dot(direction, ConvexMesh_getVertex(i))
         IN  SupportScan(direction, i + 1,
                IF dotProduct > s.maxDotProduct
                THEN [maxDotProduct |-> dotProduct, indexMaxDotProduct |-> i]
                ELSE s)

\* Mutant: the final assertion demands a positive maximum.
getLocalSupportPointWithoutMargin_assertPositive(direction) ==
    LET s == SupportScan(direction, 0,
                [maxDotProduct |-> DECIMAL_SMALLEST, indexMaxDotProduct |-> 0])
    IN  IF s.maxDotProduct > 0
        THEN [outcome |-> "returned",
              ret |-> VecMul(ConvexMesh_getVertex(s.indexMaxDotProduct), mScale)]
        ELSE [outcome |-> "aborted", ret |-> 0]

getLocalSupportPointWithoutMargin(direction) ==
    LET s == SupportScan(direction, 0,
                [maxDotProduct |-> DECIMAL_SMALLEST, indexMaxDotProduct |-> 0])
    IN  IF s.maxDotProduct >= 0
        THEN [outcome |-> "returned",
              ret |-> VecMul(ConvexMesh_getVertex(s.indexMaxDotProduct), mScale)]
        ELSE [outcome |-> "aborted", ret |-> 0]

\* ------------------------------------------------------------------ raycast
\* The locals of raycast before the loop; returnedFalse becomes true when
\* the function returns false inside the loop.
\* The locals of raycast with tMin starting below 0.
InitialLocals_negativeTMin(ray) ==
    [tMin |-> FracOfInt(-1), tMax |-> ray.maxFraction,
     currentFaceNormal |-> <<0, 0, 0>>, isIntersectionFound |-> FALSE,
     returnedFalse |-> FALSE]

InitialLocals(ray) ==
    [tMin |-> FracOfInt(0), tMax |-> ray.maxFraction,
     currentFaceNormal |-> <<0, 0, 0>>, isIntersectionFound |-> FALSE,
     returnedFalse |-> FALSE]

\* Mutant: a face whose parameter equals tMin also becomes the candidate.
RaycastFace_lastTieWins(ray, s, f) ==
    LET direction == VecSub(ray.point2, ray.point1)
        face == getFace(f)
        faceNormal == ConvexMesh_getFaceNormal(f)
        faceVertex == getVertex(face.faceVertices[1])
        facePoint == ConvexMesh_getVertex(faceVertex.vertexPointIndex)
        denom == Dot(faceNormal, direction)
        planeD == Dot(faceNormal, facePoint)
        dist == planeD - Dot(faceNormal, ray.point1)
    IN  IF denom = 0
        THEN IF dist < 0 THEN [s EXCEPT !.returnedFalse = TRUE] ELSE s
        ELSE LET t == Frac(dist, denom)
                 clipped ==
                    IF denom < 0
                    THEN IF ~FracLess(t, s.tMin)
                         THEN [s EXCEPT !.tMin = t,
                                        !.currentFaceNormal = faceNormal,
                                        !.isIntersectionFound = TRUE]
                         ELSE s
                    ELSE IF FracLess(t, s.tMax) THEN [s EXCEPT !.tMax = t] ELSE s
             IN  IF FracLess(clipped.tMax, clipped.tMin)
                 THEN [clipped EXCEPT !.returnedFalse = TRUE]
                 ELSE clipped

\* Mutant: a face parallel to the ray never ends the call.
RaycastFace_ignoresParallel(ray, s, f) ==
    LET direction == VecSub(ray.point2, ray.point1)
        face == getFace(f)
        faceNormal == ConvexMesh_getFaceNormal(f)
        faceVertex == getVertex(face.faceVertices[1])
        facePoint == ConvexMesh_getVertex(faceVertex.vertexPointIndex)
        denom == Dot(faceNormal, direction)
        planeD == Dot(faceNormal, facePoint)
        dist == planeD - Dot(faceNormal, ray.point1)
    IN  IF denom = 0
        THEN s
        ELSE LET t == Frac(dist, denom)
                 clipped ==
                    IF denom < 0
                    THEN IF FracLess(s.tMin, t)
                         THEN [s EXCEPT !.tMin = t,
                                        !.currentFaceNormal = faceNormal,
                                        !.isIntersectionFound = TRUE]
                         ELSE s
                    ELSE IF FracLess(t, s.tMax) THEN [s EXCEPT !.tMax = t] ELSE s
             IN  IF FracLess(clipped.tMax, clipped.tMin)
                 THEN [clipped EXCEPT !.returnedFalse = TRUE]
                 ELSE clipped

\* One iteration of the loop over the faces; s holds the locals.
\* RaycastFace without the return from inside the loop when the interval is
\* empty.
RaycastFace_noEarlyReturn(ray, s, f) ==
    LET direction == VecSub(ray.point2, ray.point1)
        faceNormal == ConvexMesh_getFaceNormal(f)
        facePoint == ConvexMesh_getVertex(getVertex(getFace(f).faceVertices[1]).vertexPointIndex)
        denom == Dot(faceNormal, direction)
        dist == Dot(faceNormal, facePoint) - Dot(faceNormal, ray.point1)
    IN  IF denom = 0
        THEN IF dist < 0 THEN [s EXCEPT !.returnedFalse = TRUE] ELSE s
        ELSE LET t == Frac(dist, denom)
             IN  IF denom < 0
                 THEN IF FracLess(s.tMin, t)
                      THEN [s EXCEPT !.tMin = t,
                                     !.currentFaceNormal = faceNormal,
                                     !.isIntersectionFound = TRUE]
                      ELSE s
                 ELSE IF FracLess(t, s.tMax) THEN [s EXCEPT !.tMax = t] ELSE s

\* RaycastFace where an entering face sets tMin without comparing.
RaycastFace_lastEnteringWins(ray, s, f) ==
    LET direction == VecSub(ray.point2, ray.point1)
        faceNormal == ConvexMesh_getFaceNormal(f)
        facePoint == ConvexMesh_getVertex(getVertex(getFace(f).faceVertices[1]).vertexPointIndex)
        denom == Dot(faceNormal, direction)
        dist == Dot(faceNormal, facePoint) - Dot(faceNormal, ray.point1)
    IN  IF denom = 0
        THEN IF dist < 0 THEN [s EXCEPT !.returnedFalse = TRUE] ELSE s
        ELSE LET t == Frac(dist, denom)
                 clipped ==
                    IF denom < 0
                    THEN [s EXCEPT !.tMin = t,
                                   !.currentFaceNormal = faceNormal,
                                   !.isIntersectionFound = TRUE]
                    ELSE IF FracLess(t, s.tMax) THEN [s EXCEPT !.tMax = t] ELSE s
             IN  IF FracLess(clipped.tMax, clipped.tMin)
                 THEN [clipped EXCEPT !.returnedFalse = TRUE]
                 ELSE clipped

\* RaycastFace where an entering face behind the origin counts with the
\* absolute value of its parameter.
RaycastFace_entersFromBehind(ray, s, f) ==
    LET direction == VecSub(ray.point2, ray.point1)
        faceNormal == ConvexMesh_getFaceNormal(f)
        facePoint == ConvexMesh_getVertex(getVertex(getFace(f).faceVertices[1]).vertexPointIndex)
        denom == Dot(faceNormal, direction)
        dist == Dot(faceNormal, facePoint) - Dot(faceNormal, ray.point1)
    IN  IF denom = 0
        THEN IF dist < 0 THEN [s EXCEPT !.returnedFalse = TRUE] ELSE s
        ELSE LET t == Frac(dist, denom)
                 clipped ==
                    IF denom < 0
                    THEN IF FracLess(s.tMin, Frac(Abs(dist), Abs(denom)))
                         THEN [s EXCEPT !.tMin = Frac(Abs(dist), Abs(denom)),
                                        !.currentFaceNormal = faceNormal,
                                        !.isIntersectionFound = TRUE]
                         ELSE s
                    ELSE IF FracLess(t, s.tMax) THEN [s EXCEPT !.tMax = t] ELSE s
             IN  IF FracLess(clipped.tMax, clipped.tMin)
                 THEN [clipped EXCEPT !.returnedFalse = TRUE]
                 ELSE clipped

RaycastFace(ray, s, f) ==
    LET direction == VecSub(ray.point2, ray.point1)
        face == getFace(f)
        faceNormal == ConvexMesh_getFaceNormal(f)
        faceVertex == getVertex(face.faceVertices[1])
        facePoint == ConvexMesh_getVertex(faceVertex.vertexPointIndex)
        denom == Dot(faceNormal, direction)
        planeD == Dot(faceNormal, facePoint)
        dist == planeD - Dot(faceNormal, ray.point1)
    IN  IF denom = 0
        THEN IF dist < 0 THEN [s EXCEPT !.returnedFalse = TRUE] ELSE s
        ELSE LET t == Frac(dist, denom)
                 clipped ==
                    IF denom < 0
                    THEN IF FracLess(s.tMin, t)
                         THEN [s EXCEPT !.tMin = t,
                                        !.currentFaceNormal = faceNormal,
                                        !.isIntersectionFound = TRUE]
                         ELSE s
                    ELSE IF FracLess(t, s.tMax) THEN [s EXCEPT !.tMax = t] ELSE s
             IN  IF FracLess(clipped.tMax, clipped.tMin)
                 THEN [clipped EXCEPT !.returnedFalse = TRUE]
                 ELSE clipped

RECURSIVE RaycastLoop(_, _, _)
RaycastLoop(ray, s, f) ==
    IF f >= ConvexMesh_getNbFaces \/ s.returnedFalse THEN s
    ELSE RaycastLoop(ray, RaycastFace(ray, s, f), f + 1)

\* Mutant: isIntersectionFound starts as true.
RaycastLocals_foundInitially(ray) ==
    RaycastLoop(ray,
        [InitialLocals(ray) EXCEPT !.isIntersectionFound = TRUE],
        0)

RaycastLocals(ray) ==
    RaycastLoop(ray,
        InitialLocals(ray),
        0)

RECURSIVE RaycastLoopInOrder(_, _, _, _)
\* The loop of raycast on the same mesh with its faces stored in another
\* order: the k-th face visited is the face order[k] of the stored mesh.
RaycastLoopInOrder(ray, s, order, k) ==
    IF k > ConvexMesh_getNbFaces \/ s.returnedFalse THEN s
    ELSE RaycastLoopInOrder(ray, RaycastFace(ray, s, order[k]), order, k + 1)

\* Every order in which the faces of the mesh can be stored.
FaceOrders == Permutations(0..(ConvexMesh_getNbFaces - 1))

\* The four assertions made before the hit is written.
RaycastAsserts(ray, s) ==
    /\ ~FracLess(s.tMin, FracOfInt(0))
    /\ ~FracLess(ray.maxFraction, s.tMax)
    /\ ~FracLess(s.tMax, s.tMin)
    /\ LengthSquare(s.currentFaceNormal) > 0

\* Mutant: a hit is written whenever the loop completes.
raycast_hitWithoutEntering(ray, info) ==
    LET s == RaycastLocals(ray)
    IN  IF ~s.returnedFalse
        THEN IF RaycastAsserts(ray, s)
             THEN [outcome |-> "returned", ret |-> TRUE, locals |-> s,
                   raycastInfoAfter |-> [written |-> TRUE,
                             hitFraction |-> s.tMin,
                             worldPoint |-> PointOnRay(ray.point1, s.tMin,
                                                VecSub(ray.point2, ray.point1)),
                             worldNormal |-> s.currentFaceNormal]]
             ELSE [outcome |-> "aborted", ret |-> FALSE, locals |-> s, raycastInfoAfter |-> info]
        ELSE [outcome |-> "returned", ret |-> FALSE, locals |-> s, raycastInfoAfter |-> info]

\* The part of raycast after the loop that computes the hit point from tMax.
RaycastResult_hitPointAtTMax(ray, info, s) ==
    IF ~s.returnedFalse /\ s.isIntersectionFound
    THEN IF RaycastAsserts(ray, s)
         THEN [outcome |-> "returned", ret |-> TRUE, locals |-> s,
               raycastInfoAfter |-> [written |-> TRUE, hitFraction |-> s.tMin,
                         worldPoint |-> PointOnRay(ray.point1, s.tMax, VecSub(ray.point2, ray.point1)),
                         worldNormal |-> s.currentFaceNormal]]
         ELSE [outcome |-> "aborted", ret |-> FALSE, locals |-> s, raycastInfoAfter |-> info]
    ELSE [outcome |-> "returned", ret |-> FALSE, locals |-> s, raycastInfoAfter |-> info]

\* The part of raycast after the loop, from the locals s the loop left: the
\* value returned and the RaycastInfo object afterwards.
RaycastResult(ray, info, s) ==
    IF ~s.returnedFalse /\ s.isIntersectionFound
    THEN IF RaycastAsserts(ray, s)
         THEN [outcome |-> "returned", ret |-> TRUE, locals |-> s,
               raycastInfoAfter |-> [written |-> TRUE,
                         hitFraction |-> s.tMin,
                         worldPoint |-> PointOnRay(ray.point1, s.tMin,
                                            VecSub(ray.point2, ray.point1)),
                         worldNormal |-> s.currentFaceNormal]]
         ELSE [outcome |-> "aborted", ret |-> FALSE, locals |-> s, raycastInfoAfter |-> info]
    ELSE [outcome |-> "returned", ret |-> FALSE, locals |-> s, raycastInfoAfter |-> info]

raycast(ray, info) == RaycastResult(ray, info, RaycastLocals(ray))

\* ---------------------------------------------------------- testPointInside
\* Mutant: a point on a face plane is outside.
RECURSIVE TestPointInsideLoop_strict(_, _)
TestPointInsideLoop_strict(localPoint, f) ==
    IF f >= ConvexMesh_getNbFaces THEN TRUE
    ELSE LET face == getFace(f)
             faceNormal == ConvexMesh_getFaceNormal(f)
             faceVertex == getVertex(face.faceVertices[1])
             facePoint == ConvexMesh_getVertex(faceVertex.vertexPointIndex)
         IN  IF computePointToPlaneDistance(localPoint, faceNormal, facePoint) >= 0
             THEN FALSE
             ELSE TestPointInsideLoop_strict(localPoint, f + 1)

RECURSIVE TestPointInsideLoop(_, _)
TestPointInsideLoop(localPoint, f) ==
    IF f >= ConvexMesh_getNbFaces THEN TRUE
    ELSE LET face == getFace(f)
             faceNormal == ConvexMesh_getFaceNormal(f)
             faceVertex == getVertex(face.faceVertices[1])
             facePoint == ConvexMesh_getVertex(faceVertex.vertexPointIndex)
         IN  IF computePointToPlaneDistance(localPoint, faceNormal, facePoint) > 0
             THEN FALSE
             ELSE TestPointInsideLoop(localPoint, f + 1)

testPointInside(localPoint) == TestPointInsideLoop(localPoint, 0)

\* ----------------------------------------------------------- getLocalBounds
\* Mutant: the scale is not applied.
getLocalBounds_unscaled == ConvexMesh_getBounds

getLocalBounds == applyScale(ConvexMesh_getBounds, mScale)

\* ------------------------------------------------------------- query calls
topologyVars == <<mVertices, mFaces, mEdges, lifecycle, atFinalize, addVertexArgs>>

CallGetLocalSupportPointWithoutMargin(direction) ==
    /\ ~aborted
    /\ \E r \in {getLocalSupportPointWithoutMargin(direction)} :
           /\ call' = [op |-> "getLocalSupportPointWithoutMargin", arg |-> direction,
                       outcome |-> r.outcome, ret |-> r.ret]
           /\ aborted' = (r.outcome = "aborted")
    /\ UNCHANGED topologyVars
    /\ UNCHANGED readers
    /\ UNCHANGED shapeVars

CallRaycast(ray, info) ==
    /\ ~aborted
    /\ \E r \in {raycast(ray, info)} :
           /\ call' = [op |-> "raycast", arg |-> ray,
                       outcome |-> r.outcome, ret |-> r.ret, locals |-> r.locals,
                       raycastInfoAfter |-> r.raycastInfoAfter, raycastInfo |-> info]
           /\ aborted' = (r.outcome = "aborted")
    /\ UNCHANGED topologyVars
    /\ UNCHANGED readers
    /\ UNCHANGED shapeVars

CallTestPointInside(localPoint) ==
    /\ ~aborted
    /\ call' = [op |-> "testPointInside", arg |-> localPoint, outcome |-> "returned",
                ret |-> testPointInside(localPoint)]
    /\ UNCHANGED topologyVars
    /\ UNCHANGED readers
    /\ UNCHANGED <<aborted, mConvexMesh, mScale>>

\* Mutant: the scale is applied to the stored vertices, in place.
CallGetLocalBounds_scalesInPlace ==
    /\ ~aborted
    /\ call' = [op |-> "getLocalBounds", arg |-> 0, outcome |-> "returned",
                ret |-> getLocalBounds]
    /\ mConvexMesh' = [mConvexMesh EXCEPT
                         !.vertices = [v \in 1..Len(mConvexMesh.vertices) |->
                                          VecMul(mConvexMesh.vertices[v], mScale)]]
    /\ UNCHANGED topologyVars
    /\ UNCHANGED readers
    /\ UNCHANGED <<aborted, mScale>>

CallGetLocalBounds ==
    /\ ~aborted
    /\ call' = [op |-> "getLocalBounds", arg |-> 0, outcome |-> "returned",
                ret |-> getLocalBounds]
    /\ UNCHANGED topologyVars
    /\ UNCHANGED readers
    /\ UNCHANGED <<aborted, mConvexMesh, mScale>>

\* A shape over a mesh: the half-edge structure of the mesh is built and
\* finalized (vertex i refers to coordinate slot i), then the shape is
\* constructed with a scale.
ShapeInit ==
    /\ \E mesh \in Meshes :
          LET faces == [f \in 1..Len(BoxFaces) |-> Face(BoxFaces[f])]
              vertices == [v \in 1..Len(mesh.vertices) |-> Vertex(v - 1)]
          IN  /\ mConvexMesh = mesh
              /\ ConstructionErrors(faces, Len(vertices)) = {}
              /\ mEdges = BuildEdges(faces)
              /\ mFaces = LinkFaces(faces)
              /\ mVertices = LinkVertices(vertices, mEdges)
              /\ atFinalize = [nbVertices |-> Len(vertices), nbFaces |-> Len(faces)]
              /\ addVertexArgs = [v \in 1..Len(mesh.vertices) |-> v - 1]
    /\ mScale \in Scales
    /\ lifecycle = "Finalized"
    /\ call = NoCall
    /\ aborted = FALSE
    /\ readers = <<>>

ShapeNext ==
    \/ \E d \in Directions : CallGetLocalSupportPointWithoutMargin(d)
    \/ \E p1 \in RayPoints : \E p2 \in RayPoints : \E m \in MaxFractions :
          \E info \in RaycastInfoInputs :
             CallRaycast(Ray(p1, p2, m), info)
    \/ \E ray \in OutOfRangeFractionRays : CallRaycast(ray, UnwrittenRaycastInfo)
    \/ \E p \in TestPoints : CallTestPointInside(p)
    \/ CallGetLocalBounds

SpecShape == ShapeInit /\ [][ShapeNext]_vars

\* ================================================== concurrent readers
\* Reader threads call const methods on one finalized mesh at the same time.
\* A raycast is one step per face of its loop, so that the steps of several
\* readers interleave; the other calls read the shared arrays in one step.
NbReaders == 2

Readers == 1..NbReaders

ReaderRays ==
    { Ray(<<-5, 0, 0>>, <<5, 0, 0>>, <<1, 1>>),
      Ray(<<-5, -5, 0>>, <<5, 5, 0>>, <<1, 1>>),
      Ray(<<5, 0, 0>>, <<-5, 0, 0>>, <<1, 4>>),
      Ray(<<0, 0, 0>>, <<5, 0, 0>>, <<1, 1>>) }

ReaderPoints == { <<0, 0, 0>>, <<2, 2, 2>> }

ReaderIndices == {5}

ReaderDirections == { <<1, 0, 0>>, <<-1, 0, 0>> }

ReaderIsFree(r) == readers[r].outcome # "running"

\* raycast up to the loop: the locals are initialized.
ReaderBeginRaycast(r, ray) ==
    /\ ~aborted
    /\ ReaderIsFree(r)
    /\ readers' = [readers EXCEPT ![r] =
                      [op |-> "raycast", arg |-> ray, outcome |-> "running",
                       ret |-> FALSE, locals |-> InitialLocals(ray), nextFace |-> 0]]
    /\ UNCHANGED <<topologyVars, shapeVars, call, aborted>>

\* One iteration of the loop of raycast.
ReaderRaycastFace(r) ==
    /\ ~aborted
    /\ readers[r].outcome = "running"
    /\ readers[r].nextFace < ConvexMesh_getNbFaces
    /\ ~readers[r].locals.returnedFalse
    /\ \E s \in {RaycastFace(readers[r].arg, readers[r].locals, readers[r].nextFace)} :
          readers' = [readers EXCEPT ![r].locals = s, ![r].nextFace = @ + 1]
    /\ UNCHANGED <<topologyVars, shapeVars, call, aborted>>

\* raycast after the loop, or its return from inside the loop.
ReaderEndRaycast(r) ==
    /\ ~aborted
    /\ readers[r].outcome = "running"
    /\ readers[r].nextFace >= ConvexMesh_getNbFaces \/ readers[r].locals.returnedFalse
    /\ \E res \in {RaycastResult(readers[r].arg, UnwrittenRaycastInfo, readers[r].locals)} :
          /\ readers' = [readers EXCEPT ![r] =
                            [op |-> "raycast", arg |-> readers[r].arg,
                             outcome |-> res.outcome, ret |-> res.ret,
                             locals |-> res.locals,
                             raycastInfoAfter |-> res.raycastInfoAfter]]
          /\ aborted' = (res.outcome = "aborted")
    /\ UNCHANGED <<topologyVars, shapeVars, call>>

ReaderTestPointInside(r, localPoint) ==
    /\ ~aborted
    /\ ReaderIsFree(r)
    /\ readers' = [readers EXCEPT ![r] =
                      [op |-> "testPointInside", arg |-> localPoint,
                       outcome |-> "returned", ret |-> testPointInside(localPoint)]]
    /\ UNCHANGED <<topologyVars, shapeVars, call, aborted>>

ReaderGetFace(r, index) ==
    /\ ~aborted
    /\ ReaderIsFree(r)
    /\ IF getFaceAssert(index)
       THEN /\ readers' = [readers EXCEPT ![r] =
                              [op |-> "getFace", arg |-> index, outcome |-> "returned",
                               ret |-> getFace(index)]]
            /\ aborted' = FALSE
       ELSE /\ readers' = [readers EXCEPT ![r] =
                              [op |-> "getFace", arg |-> index, outcome |-> "aborted",
                               ret |-> 0]]
            /\ aborted' = TRUE
    /\ UNCHANGED <<topologyVars, shapeVars, call>>

ReaderGetHalfEdge(r, index) ==
    /\ ~aborted
    /\ ReaderIsFree(r)
    /\ IF getHalfEdgeAssert(index)
       THEN /\ readers' = [readers EXCEPT ![r] =
                              [op |-> "getHalfEdge", arg |-> index, outcome |-> "returned",
                               ret |-> getHalfEdge(index)]]
            /\ aborted' = FALSE
       ELSE /\ readers' = [readers EXCEPT ![r] =
                              [op |-> "getHalfEdge", arg |-> index, outcome |-> "aborted",
                               ret |-> 0]]
            /\ aborted' = TRUE
    /\ UNCHANGED <<topologyVars, shapeVars, call>>

ReaderGetVertex(r, index) ==
    /\ ~aborted
    /\ ReaderIsFree(r)
    /\ IF getVertexAssert(index)
       THEN /\ readers' = [readers EXCEPT ![r] =
                              [op |-> "getVertex", arg |-> index, outcome |-> "returned",
                               ret |-> getVertex(index)]]
            /\ aborted' = FALSE
       ELSE /\ readers' = [readers EXCEPT ![r] =
                              [op |-> "getVertex", arg |-> index, outcome |-> "aborted",
                               ret |-> 0]]
            /\ aborted' = TRUE
    /\ UNCHANGED <<topologyVars, shapeVars, call>>

ReaderGetLocalSupportPointWithoutMargin(r, direction) ==
    /\ ~aborted
    /\ ReaderIsFree(r)
    /\ \E res \in {getLocalSupportPointWithoutMargin(direction)} :
          /\ readers' = [readers EXCEPT ![r] =
                            [op |-> "getLocalSupportPointWithoutMargin", arg |-> direction,
                             outcome |-> res.outcome, ret |-> res.ret]]
          /\ aborted' = (res.outcome = "aborted")
    /\ UNCHANGED <<topologyVars, shapeVars, call>>

ReaderGetLocalBounds(r) ==
    /\ ~aborted
    /\ ReaderIsFree(r)
    /\ readers' = [readers EXCEPT ![r] =
                      [op |-> "getLocalBounds", arg |-> 0, outcome |-> "returned",
                       ret |-> getLocalBounds]]
    /\ UNCHANGED <<topologyVars, shapeVars, call, aborted>>

\* The shape of ShapeInit with every reader before its first call.
ReadersInit ==
    /\ \E mesh \in Meshes :
          LET faces == [f \in 1..Len(BoxFaces) |-> Face(BoxFaces[f])]
              vertices == [v \in 1..Len(mesh.vertices) |-> Vertex(v - 1)]
          IN  /\ mConvexMesh = mesh
              /\ ConstructionErrors(faces, Len(vertices)) = {}
              /\ mEdges = BuildEdges(faces)
              /\ mFaces = LinkFaces(faces)
              /\ mVertices = LinkVertices(vertices, mEdges)
              /\ atFinalize = [nbVertices |-> Len(vertices), nbFaces |-> Len(faces)]
              /\ addVertexArgs = [v \in 1..Len(mesh.vertices) |-> v - 1]
    /\ mScale \in Scales
    /\ lifecycle = "Finalized"
    /\ call = NoCall
    /\ aborted = FALSE
    /\ readers = [r \in Readers |-> NoCall]

ReadersNext ==
    \E r \in Readers :
        \/ \E ray \in ReaderRays : ReaderBeginRaycast(r, ray)
        \/ ReaderRaycastFace(r)
        \/ ReaderEndRaycast(r)
        \/ \E p \in ReaderPoints : ReaderTestPointInside(r, p)
        \/ \E i \in ReaderIndices : ReaderGetFace(r, i)
        \/ \E i \in ReaderIndices : ReaderGetHalfEdge(r, i)
        \/ \E i \in ReaderIndices : ReaderGetVertex(r, i)
        \/ \E d \in ReaderDirections : ReaderGetLocalSupportPointWithoutMargin(r, d)
        \/ ReaderGetLocalBounds(r)

SpecReaders == ReadersInit /\ [][ReadersNext]_vars

\* ================================================================= claims
HalfEdgeIndices == 0..(getNbHalfEdges - 1)

\* The faces that init() processed.
FinalizedFaceIndices == 0..(atFinalize.nbFaces - 1)

AccessorOps ==
    {"getFace", "getHalfEdge", "getVertex", "getNbFaces", "getNbHalfEdges", "getNbVertices"}

\* Every index stored in a half-edge designates a half-edge.
EdgeLinksInRange ==
    \A e \in HalfEdgeIndices :
        /\ getHalfEdgeAssert(getHalfEdge(e).twinEdgeIndex)
        /\ getHalfEdgeAssert(getHalfEdge(e).nextEdgeIndex)

\* The half-edge reached from e by following nextEdgeIndex n times.
RECURSIVE FollowNext(_, _)
FollowNext(e, n) ==
    IF n = 0 THEN e ELSE FollowNext(getHalfEdge(e).nextEdgeIndex, n - 1)

\* C1: in a finalized topology the twin of the twin of every half-edge is the
\* half-edge itself:
\* getHalfEdge(getHalfEdge(e).twinEdgeIndex).twinEdgeIndex == e.
C1_TwinOfTwin ==
    lifecycle = "Finalized" =>
        /\ EdgeLinksInRange
        /\ \A e \in HalfEdgeIndices :
              getHalfEdge(getHalfEdge(e).twinEdgeIndex).twinEdgeIndex = e

\* A finalized closed mesh of a quadrilateral and two triangles.
C1_Witness ==
    /\ lifecycle = "Finalized"
    /\ getNbHalfEdges = 10

\* C2: in a finalized topology, for every face f with k boundary vertices,
\* following nextEdgeIndex k times from any half-edge of f, in particular from
\* getFace(f).edgeIndex, leads back to that half-edge.
C2_NextCycle ==
    lifecycle = "Finalized" =>
        /\ EdgeLinksInRange
        /\ \A f \in FinalizedFaceIndices :
              LET k == Len(getFace(f).faceVertices)
                  start == getFace(f).edgeIndex
              IN  /\ getFace(f).edgeIndexSet
                  /\ getHalfEdgeAssert(start)
                  /\ getHalfEdge(start).faceIndex = f
                  /\ FollowNext(start, k) = start
                  /\ \A e \in HalfEdgeIndices :
                        getHalfEdge(e).faceIndex = f => FollowNext(e, k) = e

\* A finalized mesh with a triangle and a quadrilateral among its faces.
C2_Witness ==
    /\ lifecycle = "Finalized"
    /\ \E f \in FinalizedFaceIndices : Len(getFace(f).faceVertices) = 4
    /\ \E f \in FinalizedFaceIndices : Len(getFace(f).faceVertices) = 3

\* C3: after a successful finalize the twin of a half-edge from a to b on
\* face f goes from b to a and belongs to a face other than f.
C3_TwinReversed ==
    lifecycle = "Finalized" =>
        /\ EdgeLinksInRange
        /\ \A e \in HalfEdgeIndices :
              LET edge == getHalfEdge(e)
                  twin == getHalfEdge(edge.twinEdgeIndex)
              IN  /\ twin.vertexIndex = getHalfEdge(edge.nextEdgeIndex).vertexIndex
                  /\ getHalfEdge(twin.nextEdgeIndex).vertexIndex = edge.vertexIndex
                  /\ twin.faceIndex # edge.faceIndex

\* A finalized mesh whose faces include both windings of the triangle 0 1 2.
C3_Witness ==
    /\ lifecycle = "Finalized"
    /\ getNbHalfEdges = 6
    /\ getHalfEdge(0).faceIndex # getHalfEdge(getHalfEdge(0).twinEdgeIndex).faceIndex

\* The vertex pair of edge c is the reverse of the vertex pair of edge k.
IsReverseOf(faces, c, k) ==
    /\ faces[c[1]].faceVertices[c[2]] =
         faces[k[1]].faceVertices[(k[2] % Len(faces[k[1]].faceVertices)) + 1]
    /\ faces[k[1]].faceVertices[k[2]] =
         faces[c[1]].faceVertices[(c[2] % Len(faces[c[1]].faceVertices)) + 1]

\* Open boundary: some directed edge has no reverse edge in any face.
HasOpenBoundary(faces) ==
    \E k \in EdgeKeys(faces) : \A c \in EdgeKeys(faces) : ~IsReverseOf(faces, c, k)

\* Non-manifold: some directed edge has several candidate twins.
HasSeveralTwins(faces) ==
    \E k \in EdgeKeys(faces) : \E c, d \in EdgeKeys(faces) :
        /\ c # d
        /\ c[1] # k[1] /\ d[1] # k[1]
        /\ IsReverseOf(faces, c, k) /\ IsReverseOf(faces, d, k)

C6_FailedTopologyRefusesQueries ==
    (lifecycle = "Failed" /\ call.op \in AccessorOps) => call.outcome = "aborted"

\* C7: the n-th call of addVertex returns n, getNbVertices() is then n + 1,
\* and getVertex(n).vertexPointIndex stays the pointIndex passed to that call.
C7_AddVertexDense ==
    /\ getNbVertices = Len(addVertexArgs)
    /\ call.op = "addVertex" =>
          /\ call.ret = Len(addVertexArgs) - 1
          /\ getNbVertices = call.ret + 1
          /\ call.arg = addVertexArgs[Len(addVertexArgs)]
    /\ \A n \in 0..(Len(addVertexArgs) - 1) :
          /\ getVertexAssert(n)
          /\ getVertex(n).vertexPointIndex = addVertexArgs[n + 1]

\* Vertices with different coordinate slots, added around addFace calls, in a
\* topology that was finalized afterwards.
C7_Witness ==
    /\ lifecycle = "Finalized"
    /\ getNbHalfEdges = 6
    /\ Len(addVertexArgs) = 3
    /\ addVertexArgs[1] # addVertexArgs[2]
    /\ addVertexArgs[2] # addVertexArgs[3]

\* C8: an accessor called before finalize never returns a value.
C8_QueryBeforeFinalizeRefused ==
    (lifecycle = "Building" /\ call.op \in AccessorOps) => call.outcome = "aborted"

\* C9: once finalize has succeeded no step changes the vertex, half-edge and
\* face arrays.
C9_FinalizedIsImmutable ==
    [][lifecycle = "Finalized" =>
          /\ mVertices' = mVertices
          /\ mFaces' = mFaces
          /\ mEdges' = mEdges]_vars

\* C10: getFace(i), getHalfEdge(i) and getVertex(i) abort when i is not below
\* the count and otherwise return the record stored at index i.
C10_IndexedAccessors ==
    /\ call.op = "getFace" =>
          IF call.arg >= Len(mFaces)
          THEN call.outcome = "aborted" /\ aborted
          ELSE call.outcome = "returned" /\ call.ret = mFaces[call.arg + 1] /\ ~aborted
    /\ call.op = "getHalfEdge" =>
          IF call.arg >= Len(mEdges)
          THEN call.outcome = "aborted" /\ aborted
          ELSE call.outcome = "returned" /\ call.ret = mEdges[call.arg + 1] /\ ~aborted
    /\ call.op = "getVertex" =>
          IF call.arg >= Len(mVertices)
          THEN call.outcome = "aborted" /\ aborted
          ELSE call.outcome = "returned" /\ call.ret = mVertices[call.arg + 1] /\ ~aborted

\* getHalfEdge called with the number of half-edges of a finalized mesh.
C10_Witness ==
    /\ call.op = "getHalfEdge"
    /\ getNbHalfEdges = 10
    /\ call.arg = getNbHalfEdges
    /\ aborted

\* ------------------------------------------------ claims about the queries
SupportOp == "getLocalSupportPointWithoutMargin"

MeshVertexIndices == 1..Len(mConvexMesh.vertices)

\* Vertex v (1-based) has the largest dot product with d among all vertices.
IsMaximiser(d, v) ==
    \A w \in MeshVertexIndices :
        Dot(d, mConvexMesh.vertices[v]) >= Dot(d, mConvexMesh.vertices[w])

\* The smallest index among the vertices with the largest dot product.
FirstMaximiser(d) ==
    CHOOSE v \in MeshVertexIndices :
        /\ IsMaximiser(d, v)
        /\ \A u \in MeshVertexIndices : IsMaximiser(d, u) => v <= u

\* C11: for every mesh and every direction d, the support point query
\* returns v * scale, v being a mesh vertex whose dot product with d is the
\* largest among all mesh vertices.
C11_SupportIsScaledMaximiser ==
    call.op = SupportOp =>
        /\ call.outcome = "returned"
        /\ \E v \in MeshVertexIndices :
              /\ IsMaximiser(call.arg, v)
              /\ call.ret = VecMul(mConvexMesh.vertices[v], mScale)

\* C12: among the vertices that tie for the largest dot product, the support
\* point query returns the one with the smallest index, so the same
\* direction on the same mesh always gives the same vertex.
C12_SupportTieFirstIndex ==
    (call.op = SupportOp
        /\ \E u \in MeshVertexIndices : IsMaximiser(call.arg, u) /\ u # FirstMaximiser(call.arg))
    => /\ call.outcome = "returned"
       /\ call.ret = VecMul(mConvexMesh.vertices[FirstMaximiser(call.arg)], mScale)

\* C13: the support point query with the direction (0,0,0) returns, without
\* a failed assertion, one fixed vertex of the mesh, scaled: the vertex of
\* index 0.
C13_SupportZeroDirection ==
    (call.op = SupportOp /\ call.arg = <<0, 0, 0>>) =>
        /\ call.outcome = "returned"
        /\ ~aborted
        /\ call.ret = VecMul(mConvexMesh.vertices[1], mScale)

C13_Witness ==
    /\ call.op = SupportOp
    /\ call.arg = <<0, 0, 0>>
    /\ mConvexMesh = OffsetCube
    /\ mScale = <<2, 1, 1>>
    /\ call.ret = <<2, 1, 1>>

FaceIndices == 1..Len(mFaces)

\* The point of face f (1-based) the queries use: the coordinates of the
\* first vertex of the face.
FacePointOf(f) ==
    mConvexMesh.vertices[mVertices[mFaces[f].faceVertices[1] + 1].vertexPointIndex + 1]

FaceDenom(ray, f) == Dot(mConvexMesh.faceNormals[f], VecSub(ray.point2, ray.point1))

FaceDist(ray, f) ==
    Dot(mConvexMesh.faceNormals[f], FacePointOf(f)) - Dot(mConvexMesh.faceNormals[f], ray.point1)

\* The faces the ray enters, and the parameter at which it crosses the plane
\* of such a face.
EnteringFaces(ray) == { f \in FaceIndices : FaceDenom(ray, f) < 0 }

EnterT(ray, f) == Frac(FaceDist(ray, f), FaceDenom(ray, f))

\* The ray of the raycast example: (-5,0,0) -> (5,0,0), maxFraction 1.
ExampleRay == Ray(<<-5, 0, 0>>, <<5, 0, 0>>, <<1, 1>>)

IsRaycastHit == call.op = "raycast" /\ call.outcome = "returned" /\ call.ret = TRUE

\* C14: when raycast reports a hit, hitFraction is the largest entering
\* parameter dist/denom over the faces with denom < 0, the hit point is
\* point1 + hitFraction * (point2 - point1), and the normal is that of the
\* face that last raised tMin (the first face, in index order, that attains
\* the largest entering parameter); on the cube of half-extent 1 the ray
\* (-5,0,0) -> (5,0,0) with maxFraction 1 hits with fraction 2/5 at (-1,0,0)
\* with normal (-1,0,0).
C14_HitReport ==
    /\ IsRaycastHit =>
          LET ray == call.arg
              info == call.raycastInfoAfter
              direction == VecSub(ray.point2, ray.point1)
          IN  /\ info.written
              /\ info.hitFraction = call.locals.tMin
              /\ \A f \in EnteringFaces(ray) : ~FracLess(info.hitFraction, EnterT(ray, f))
              /\ \E f \in EnteringFaces(ray) :
                    /\ EnterT(ray, f) = info.hitFraction
                    /\ \A g \in EnteringFaces(ray) :
                          g < f => EnterT(ray, g) # info.hitFraction
                    /\ info.worldNormal = mConvexMesh.faceNormals[f]
              /\ \A i \in 1..3 :
                    info.worldPoint[i][1] * info.hitFraction[2] =
                       (ray.point1[i] * info.hitFraction[2]
                           + info.hitFraction[1] * direction[i]) * info.worldPoint[i][2]
    /\ (call.op = "raycast" /\ call.arg = ExampleRay /\ mConvexMesh = UnitCube) =>
          /\ IsRaycastHit
          /\ call.raycastInfoAfter.hitFraction = <<2, 5>>
          /\ call.raycastInfoAfter.worldPoint = << <<-1, 1>>, <<0, 1>>, <<0, 1>> >>
          /\ call.raycastInfoAfter.worldNormal = <<-1, 0, 0>>

C14_Witness ==
    /\ IsRaycastHit
    /\ call.arg = ExampleRay
    /\ mConvexMesh = UnitCube
    /\ call.raycastInfoAfter.hitFraction = <<2, 5>>
    /\ call.raycastInfoAfter.worldNormal = <<-1, 0, 0>>

IsRaycastMiss ==
    /\ call.op = "raycast"
    /\ call.outcome = "returned"
    /\ call.ret = FALSE
    /\ call.raycastInfoAfter = call.raycastInfo

\* C15: if the ray is parallel to the plane of some face (denom = 0) and
\* its origin is strictly outside the half-space of that face (dist < 0),
\* raycast reports no hit, whatever the other faces and maxFraction are.
C15_ParallelOutsideMisses ==
    (call.op = "raycast"
        /\ \E f \in FaceIndices : FaceDenom(call.arg, f) = 0 /\ FaceDist(call.arg, f) < 0)
    => IsRaycastMiss

\* The ray (5,5,0) -> (5,0,0) enters the half-space of the face +y of the
\* unit cube before it reaches the face +x, to which it is parallel.
C15_Witness ==
    /\ IsRaycastMiss
    /\ mConvexMesh = UnitCube
    /\ call.arg = Ray(<<5, 5, 0>>, <<5, 0, 0>>, <<1, 1>>)
    /\ call.locals.isIntersectionFound
    /\ call.locals.returnedFalse
    /\ FaceDenom(call.arg, 6) = 0
    /\ FaceDist(call.arg, 6) < 0

\* C16: if no face raises tMin (no entering face has a parameter above 0),
\* raycast reports no hit and leaves the RaycastInfo object as it was
\* handed in, also when the loop completes with tMin <= tMax.
C16_NoEntryNoHit ==
    (call.op = "raycast"
        /\ \A f \in EnteringFaces(call.arg) :
              ~FracLess(FracOfInt(0), EnterT(call.arg, f)))
    => /\ IsRaycastMiss
       /\ ~call.locals.isIntersectionFound

\* A ray from the centre of the unit cube: the loop completes with the
\* interval [0, 1/5] and a RaycastInfo that was already used stays as it was.
C16_Witness ==
    /\ IsRaycastMiss
    /\ mConvexMesh = UnitCube
    /\ call.arg = Ray(<<0, 0, 0>>, <<5, 0, 0>>, <<1, 1>>)
    /\ ~call.locals.returnedFalse
    /\ ~call.locals.isIntersectionFound
    /\ call.locals.tMin = <<0, 1>>
    /\ call.locals.tMax = <<1, 5>>
    /\ call.raycastInfo.written
    /\ call.raycastInfoAfter = call.raycastInfo

\* C17: raycast with point1 = point2 reports no hit, for every origin, mesh
\* and maxFraction, and no assertion fails.
C17_ZeroLengthRayMisses ==
    (call.op = "raycast" /\ call.arg.point1 = call.arg.point2) =>
        /\ IsRaycastMiss
        /\ ~aborted
        /\ \A f \in FaceIndices : FaceDenom(call.arg, f) = 0
        /\ call.locals.tMin = <<0, 1>>
        /\ call.locals.tMax = call.arg.maxFraction

\* Origin inside: every face is visited, none divides.
C17_Witness ==
    /\ IsRaycastMiss
    /\ mConvexMesh = UnitCube
    /\ call.arg.point1 = <<0, 0, 0>>
    /\ call.arg.point2 = <<0, 0, 0>>
    /\ ~call.locals.returnedFalse

\* dot(normal, p) - dot(normal, facePoint) for face f (1-based).
SignedDistance(p, f) ==
    Dot(mConvexMesh.faceNormals[f], p) - Dot(mConvexMesh.faceNormals[f], FacePointOf(f))

\* C18: testPointInside(p) is true if and only if, for every face,
\* dot(normal, p) - dot(normal, facePoint) <= 0, facePoint being the first
\* vertex of the face; a point on a face plane is inside.  On the unit cube
\* (0,0,0) is inside, (2,0,0) is not, (1,0,0) is.
C18_InsideIffAllHalfSpaces ==
    /\ call.op = "testPointInside" =>
          /\ call.outcome = "returned"
          /\ call.ret = (\A f \in FaceIndices : SignedDistance(call.arg, f) <= 0)
    /\ (call.op = "testPointInside" /\ mConvexMesh = UnitCube) =>
          /\ call.arg = <<0, 0, 0>> => call.ret = TRUE
          /\ call.arg = <<2, 0, 0>> => call.ret = FALSE
          /\ call.arg = <<1, 0, 0>> => call.ret = TRUE

C18_Witness ==
    /\ call.op = "testPointInside"
    /\ mConvexMesh = UnitCube
    /\ call.arg = <<1, 0, 0>>
    /\ call.ret = TRUE
    /\ \E f \in FaceIndices : SignedDistance(call.arg, f) = 0

\* Coordinate i of vertex v (1-based), scaled.
ScaledCoordinate(v, i) == mConvexMesh.vertices[v][i] * mScale[i]

\* C19: getLocalBounds returns, on each axis, the minimum and the maximum
\* over all vertices of the coordinate multiplied by the scale; the unit
\* cube scaled by (2,1,1) gives x in [-2,2], y in [-1,1], z in [-1,1].
C19_LocalBoundsScaledMinMax ==
    /\ call.op = "getLocalBounds" =>
          \A i \in 1..3 :
             /\ \E v \in MeshVertexIndices : call.ret.min[i] = ScaledCoordinate(v, i)
             /\ \A v \in MeshVertexIndices : call.ret.min[i] <= ScaledCoordinate(v, i)
             /\ \E v \in MeshVertexIndices : call.ret.max[i] = ScaledCoordinate(v, i)
             /\ \A v \in MeshVertexIndices : call.ret.max[i] >= ScaledCoordinate(v, i)
    /\ (call.op = "getLocalBounds" /\ mConvexMesh = UnitCube /\ mScale = <<2, 1, 1>>) =>
          call.ret = [min |-> <<-2, -1, -1>>, max |-> <<2, 1, 1>>]

C19_Witness ==
    /\ call.op = "getLocalBounds"
    /\ mConvexMesh = UnitCube
    /\ mScale = <<2, 1, 1>>
    /\ call.ret.min = <<-2, -1, -1>>
    /\ call.ret.max = <<2, 1, 1>>

\* dot(n, p) for an integer vector n and a point p with fraction coordinates.
DotWithFractions(n, p) ==
    Frac(n[1] * p[1][1] * p[2][2] * p[3][2]
            + n[2] * p[2][1] * p[1][2] * p[3][2]
            + n[3] * p[3][1] * p[1][2] * p[2][2],
         p[1][2] * p[2][2] * p[3][2])

\* The signed distance of p to the plane of face f of the scaled solid.  The
\* meshes are boxes and the scales positive: scaling keeps the face normals
\* and moves the face points.
ScaledSignedDistance(p, f) ==
    LET d == DotWithFractions(mConvexMesh.faceNormals[f], p)
        planeD == Dot(mConvexMesh.faceNormals[f], VecMul(FacePointOf(f), mScale))
    IN  Frac(d[1] - planeD * d[2], d[2])

OnScaledBoundary(p) ==
    /\ \A f \in FaceIndices : ~FracLess(FracOfInt(0), ScaledSignedDistance(p, f))
    /\ \E f \in FaceIndices : ScaledSignedDistance(p, f) = FracOfInt(0)

\* C20: the scale is applied to every query alike: for every scale and
\* direction the support point satisfies testPointInside, and the hit point
\* of a raycast lies on the boundary of the scaled solid.
C20_ScaleAppliedToEveryQuery ==
    /\ (call.op = SupportOp /\ call.outcome = "returned") => testPointInside(call.ret)
    /\ IsRaycastHit => OnScaledBoundary(call.raycastInfoAfter.worldPoint)

\* C21: the four queries leave the topology arrays, the vertex coordinates,
\* the face normals and the scale unchanged, so that across every query
\* step the accessors and the bounds query, which read nothing else, return
\* what they returned before it.
C21_QueriesAreReadOnly ==
    [][ /\ mVertices' = mVertices
        /\ mFaces' = mFaces
        /\ mEdges' = mEdges
        /\ mConvexMesh' = mConvexMesh
        /\ mScale' = mScale
        /\ getNbVertices' = getNbVertices
        /\ getNbFaces' = getNbFaces
        /\ getNbHalfEdges' = getNbHalfEdges
        /\ getFace(0)' = getFace(0)
        /\ getHalfEdge(0)' = getHalfEdge(0)
        /\ getVertex(0)' = getVertex(0)
        /\ getLocalBounds' = getLocalBounds
      ]_vars

\* A query has run on the scaled unit cube and the shape still answers as
\* a shape that was just constructed.
C21_Witness ==
    /\ call.op = "getLocalBounds"
    /\ mConvexMesh = UnitCube
    /\ mScale = <<2, 1, 1>>
    /\ getNbHalfEdges = 24
    /\ getLocalBounds = [min |-> <<-2, -1, -1>>, max |-> <<2, 1, 1>>]
    /\ getLocalSupportPointWithoutMargin(<<1, 0, 0>>).ret = <<2, -1, -1>>

\* The result of the call a reader has finished, when the same call runs alone.
ResultAlone(c) ==
    IF c.op = "raycast"
    THEN LET res == raycast(c.arg, UnwrittenRaycastInfo)
         IN  [op |-> c.op, arg |-> c.arg, outcome |-> res.outcome, ret |-> res.ret,
              locals |-> res.locals, raycastInfoAfter |-> res.raycastInfoAfter]
    ELSE IF c.op = "testPointInside"
    THEN [op |-> c.op, arg |-> c.arg, outcome |-> "returned", ret |-> testPointInside(c.arg)]
    ELSE IF c.op = "getFace"
    THEN [op |-> c.op, arg |-> c.arg, outcome |-> "returned", ret |-> getFace(c.arg)]
    ELSE IF c.op = "getHalfEdge"
    THEN [op |-> c.op, arg |-> c.arg, outcome |-> "returned", ret |-> getHalfEdge(c.arg)]
    ELSE IF c.op = "getVertex"
    THEN [op |-> c.op, arg |-> c.arg, outcome |-> "returned", ret |-> getVertex(c.arg)]
    ELSE IF c.op = "getLocalBounds"
    THEN [op |-> c.op, arg |-> c.arg, outcome |-> "returned", ret |-> getLocalBounds]
    ELSE IF c.op = SupportOp
    THEN LET res == getLocalSupportPointWithoutMargin(c.arg)
         IN  [op |-> c.op, arg |-> c.arg, outcome |-> res.outcome, ret |-> res.ret]
    ELSE NoCall

\* Every call a reader has finished gave the result of the same call run alone.
ReadersResultsAsAlone ==
    \A r \in Readers :
        readers[r].outcome # "running" => readers[r] = ResultAlone(readers[r])

\* The shared topology is the one finalize built from the box faces.
SharedTopologyAsFinalized ==
    LET faces == [f \in 1..Len(BoxFaces) |-> Face(BoxFaces[f])]
        vertices == [v \in 1..Len(mConvexMesh.vertices) |-> Vertex(v - 1)]
    IN  /\ mEdges = BuildEdges(faces)
        /\ mFaces = LinkFaces(faces)
        /\ mVertices = LinkVertices(vertices, mEdges)
        /\ mConvexMesh \in Meshes
        /\ lifecycle = "Finalized"

\* No reader is inside a call that will never return.
NoReaderCutOff ==
    aborted => \A r \in Readers : readers[r].outcome # "running"

\* C22: on a finalized topology, readers running queries and accessors in any
\* interleaving each obtain the result the same call returns when run alone,
\* and no interleaving modifies the shared topology.
C22_ConcurrentReaders ==
    /\ SharedTopologyAsFinalized
    /\ ReadersResultsAsAlone
    /\ NoReaderCutOff

\* What one step of reader r does to its raycast, stated from the planes of
\* the faces: c is the reader before the step, d after it.
RaycastStepClips(c, d) ==
    LET ray == c.arg
        f == c.nextFace + 1
        denom == FaceDenom(ray, f)
        old == c.locals
        new == d.locals
    IN  /\ d.nextFace = c.nextFace + 1
        /\ ~old.returnedFalse
        /\ d.arg = ray
        /\ (denom < 0 /\ FracLess(old.tMin, EnterT(ray, f)))
              => /\ new.tMin = EnterT(ray, f)
                 /\ new.currentFaceNormal = mConvexMesh.faceNormals[f]
        /\ (denom > 0 /\ FracLess(EnterT(ray, f), old.tMax))
              => new.tMax = EnterT(ray, f)
        /\ ~FracLess(new.tMin, old.tMin)
        /\ ~FracLess(old.tMax, new.tMax)
        /\ FracLess(new.tMax, new.tMin) => new.returnedFalse

RECURSIVE SumOfFaceVertexCounts(_, _)
\* The number of vertex indices in the first n faces of the list.
SumOfFaceVertexCounts(faces, n) ==
    IF n = 0 THEN 0
    ELSE Len(faces[n].faceVertices) + SumOfFaceVertexCounts(faces, n - 1)

\* C24: a call of addFace appends exactly one face, holding the given vertex
\* list in the given order, and leaves the number of half-edges as it was,
\* which is 0 until finalize; a successful finalize leaves as many half-edges
\* as the faces have vertex indices in total.
C24_AddFaceDefersHalfEdges ==
    /\ getNbHalfEdges = 0
    /\ [][ /\ (call'.op = "addFace" /\ mFaces' # mFaces)
                => /\ getNbFaces' = getNbFaces + 1
                   /\ \A f \in 1..Len(mFaces) : mFaces'[f] = mFaces[f]
                   /\ mFaces'[Len(mFaces) + 1].faceVertices = call'.arg
                   /\ getNbHalfEdges' = getNbHalfEdges
           /\ lifecycle' = "Building" => getNbHalfEdges' = 0
           /\ (lifecycle = "Building" /\ lifecycle' = "Finalized")
                => getNbHalfEdges' = SumOfFaceVertexCounts(mFaces', Len(mFaces'))
         ]_vars

\* A quadrilateral and two triangles were added one by one with no half-edge
\* made, and finalize then made 4 + 3 + 3 of them.
C24_Witness ==
    /\ lifecycle = "Finalized"
    /\ call.op = "init"
    /\ getNbFaces = 3
    /\ getNbHalfEdges = 10

\* C25: in a finalized topology every vertex, also one that is in no face, has
\* a defined edgeIndex below getNbHalfEdges, and the half-edge it names starts
\* at that vertex.
C25_EveryVertexHasOutgoingEdge ==
    lifecycle = "Finalized" =>
        \A v \in 0..(getNbVertices - 1) :
            /\ getVertex(v).edgeIndexSet
            /\ getVertex(v).edgeIndex < getNbHalfEdges
            /\ getHalfEdge(getVertex(v).edgeIndex).vertexIndex = v

\* C26: the assertion maxDotProduct >= 0 after the scan of the support point
\* query holds for every mesh and every direction, also for a mesh that does
\* not contain the origin and a direction with which every vertex has a
\* negative dot product: no support point query aborts.
C26_SupportAssertionHolds ==
    call.op = SupportOp => (call.outcome # "aborted" /\ ~aborted)

\* C27: no raycast fails one of its four assertions, and whenever raycast
\* reports a hit, 0 <= tMin <= tMax <= maxFraction and the normal it recorded
\* is not the zero vector, whatever the ray and its maxFraction.
C27_HitAssertionsHold ==
    call.op = "raycast" =>
        /\ call.outcome = "returned"
        /\ ~aborted
        /\ call.ret = TRUE =>
              /\ ~FracLess(call.locals.tMin, <<0, 1>>)
              /\ ~FracLess(call.locals.tMax, call.locals.tMin)
              /\ ~FracLess(call.arg.maxFraction, call.locals.tMax)
              /\ call.locals.currentFaceNormal # <<0, 0, 0>>
              /\ call.raycastInfoAfter.hitFraction = call.locals.tMin
              /\ call.raycastInfoAfter.worldNormal = call.locals.currentFaceNormal

\* A hit at the very end of a ray whose maxFraction is 2: tMin = tMax =
\* maxFraction.
C27_Witness ==
    /\ IsRaycastHit
    /\ mConvexMesh = OffsetCube
    /\ call.arg = Ray(<<-5, 2, 2>>, <<-2, 2, 2>>, <<2, 1>>)
    /\ call.locals.tMin = <<2, 1>>
    /\ call.locals.tMax = <<2, 1>>
    /\ call.raycastInfoAfter.worldNormal = <<-1, 0, 0>>

\* Two entering faces of the ray meet it at the same parameter t.
TwoEnteringFacesTieAt(ray, t) ==
    \E f, g \in EnteringFaces(ray) :
        f # g /\ EnterT(ray, f) = t /\ EnterT(ray, g) = t

\* C28: for a fixed mesh, ray and maxFraction, raycast gives the same hit or
\* no-hit answer and the same hitFraction whatever the order in which the
\* faces are stored; the normal it reports differs between two orders only
\* when two entering faces give the same parameter t.
C28_FaceOrderIndependent ==
    (call.op = "raycast" /\ call.outcome = "returned") =>
        \A order \in FaceOrders :
            \E s \in {RaycastLoopInOrder(call.arg, InitialLocals(call.arg),
                                         [k \in 1..ConvexMesh_getNbFaces |-> order[k - 1]], 1)} :
                /\ (~s.returnedFalse /\ s.isIntersectionFound) = call.ret
                /\ call.ret = TRUE =>
                      /\ s.tMin = call.raycastInfoAfter.hitFraction
                      /\ s.currentFaceNormal # call.raycastInfoAfter.worldNormal
                            => TwoEnteringFacesTieAt(call.arg, s.tMin)

\* The diagonal ray enters the unit cube through the faces -y and -x at the
\* same parameter: the stored order reports -y, the reverse order -x.
C28_Witness ==
    /\ IsRaycastHit
    /\ mConvexMesh = UnitCube
    /\ call.arg = Ray(<<-5, -5, 0>>, <<5, 5, 0>>, <<1, 1>>)
    /\ call.raycastInfoAfter.worldNormal = <<0, -1, 0>>
    /\ RaycastLoopInOrder(call.arg, InitialLocals(call.arg),
                          <<5, 4, 3, 2, 1, 0>>, 1).currentFaceNormal = <<-1, 0, 0>>
    /\ RaycastLoopInOrder(call.arg, InitialLocals(call.arg),
                          <<5, 4, 3, 2, 1, 0>>, 1).tMin = call.raycastInfoAfter.hitFraction

RECURSIVE TestPointInsideFractionsLoop(_, _)
\* The loop of testPointInside for a point whose coordinates are fractions.
TestPointInsideFractionsLoop(localPoint, f) ==
    IF f >= ConvexMesh_getNbFaces THEN TRUE
    ELSE LET faceNormal == ConvexMesh_getFaceNormal(f)
             facePoint == ConvexMesh_getVertex(getVertex(getFace(f).faceVertices[1]).vertexPointIndex)
             d == DotWithFractions(faceNormal, localPoint)
         IN  IF d[1] - Dot(faceNormal, facePoint) * d[2] > 0
             THEN FALSE
             ELSE TestPointInsideFractionsLoop(localPoint, f + 1)

testPointInsideFractions(localPoint) == TestPointInsideFractionsLoop(localPoint, 0)

\* The point p, with fractions as coordinates, is on the plane of face f.
OnFacePlane(p, f) ==
    LET d == DotWithFractions(mConvexMesh.faceNormals[f], p)
    IN  d[1] = Dot(mConvexMesh.faceNormals[f], FacePointOf(f)) * d[2]

\* C29: with exact arithmetic, whenever raycast reports a hit, the hit point it
\* reports satisfies testPointInside on the same shape, and lies exactly on
\* the plane of the face whose normal is reported.
C29_HitPointOnReportedFace ==
    IsRaycastHit =>
        LET p == call.raycastInfoAfter.worldPoint
        IN  /\ testPointInsideFractions(p)
            /\ (\A i \in 1..3 : p[i][2] = 1) => testPointInside([i \in 1..3 |-> p[i][1]])
            /\ \E f \in FaceIndices :
                  /\ mConvexMesh.faceNormals[f] = call.raycastInfoAfter.worldNormal
                  /\ OnFacePlane(p, f)

\* A hit at a point with a fractional coordinate: the ray from (-5,2,2)
\* towards the origin enters the unit cube at (-1, 2/5, 2/5).
C29_Witness ==
    /\ IsRaycastHit
    /\ mConvexMesh = UnitCube
    /\ call.raycastInfoAfter.worldPoint = << <<-1, 1>>, <<2, 5>>, <<2, 5>> >>
    /\ call.raycastInfoAfter.worldNormal = <<-1, 0, 0>>

\* C30: a ray whose origin satisfies testPointInside, strictly inside the
\* shape or exactly on its boundary, is never reported as a hit, whatever its
\* direction and maxFraction.
C30_RayFromInsideNeverHits ==
    (call.op = "raycast" /\ testPointInside(call.arg.point1)) =>
        /\ IsRaycastMiss
        /\ ~call.locals.isIntersectionFound
        /\ call.locals.tMin = <<0, 1>>

\* A ray from the point (1,0,0) on the face +x of the unit cube, cast inward
\* through the whole cube, and reported as no hit.
C30_Witness ==
    /\ IsRaycastMiss
    /\ mConvexMesh = UnitCube
    /\ call.arg = Ray(<<1, 0, 0>>, <<-5, 0, 0>>, <<1, 1>>)
    /\ testPointInside(call.arg.point1)
    /\ ~testPointInside(call.arg.point2)

====
